---- MODULE Spec2Model ----
(***************************************************************************)
(* Hosted Fields internal frame (src/hosted-fields/internal/index.js):     *)
(* the handshake of the frames and orchestrate, the tokenization pipeline,  *)
(* its error classifier, the merge of the accepted card brands, the merge  *)
(* of the card data with the caller's options, and the autofill            *)
(* synchronizer with its subscribers.                                      *)
(*                                                                         *)
(* JavaScript values are encoded as follows.  An optional value            *)
(* (`undefined` or a value v) is the sequence << >> or <<v>>.  An error    *)
(* object is a record [code, details, fieldErrors]: `code` is the          *)
(* BraintreeError code ("" for a raw object that is no BraintreeError),    *)
(* `details` is an optional record [httpStatus, originalError,             *)
(* invalidFieldKeys] of optional values, and `fieldErrors` is an optional  *)
(* list of entries [fieldErrors : optional list of [code : optional]].     *)
(***************************************************************************)
EXTENDS Integers, Sequences, FiniteSets, TLC

VARIABLES
    orchestrated,   \* orchestrate has run: the model exists, the listener is registered
    numberConfig,   \* optional configuration.fields.number
    clientPromise,  \* "none" | "pending" | "constructed" | "fulfilled"
    client,         \* optional gatewayConfiguration.creditCards of the constructed client
    cardForm,       \* the card-data model: field role -> [isEmpty, isValid]
    supportedCardTypes, \* optional mapping pushed by setSupportedCardTypes
    cardFormCalls,  \* the orchestrator's calls on the model, in order
    requests,       \* the tokenization requests received, in order of arrival
    fmtPc,          \* classifier harness: "idle" | "input" | "classified" | "reclassified"
    fmtErr,         \* the failure handed to formatTokenizationError
    fmtOut,         \* the outcome of formatTokenizationError
    brandPc,        \* brand harness: "idle" | "input" | "merged"
    brandClient,    \* optional gatewayConfiguration.creditCards of the client
    brandMerchant,  \* optional merchant supportedCardBrands, a list of <<key, bool>>
    brandOut,       \* optional: the mapping getSupportedCardBrands returned
    mergePc,        \* card-data merge harness: "idle" | "input" | "merged"
    mergeData,      \* cardForm.getCardData(fieldsToTokenize): field name -> value
    mergeOptions,   \* the request's options: [billingAddress, cardholderName]
    mergeOut,       \* the object mergeCardData returned
    inputs,         \* values of the hidden month / year / cvv autofill inputs
    cachedValues,   \* the synchronizer's cache of those values
    lastTick,       \* optional record of the last poll tick
    busEvents,      \* AUTOFILL_DATA_AVAILABLE payloads published and not yet handled
    surface,        \* a subscribing surface: [role, shouldMask, model, display]
    lastDelivery,   \* optional record of the last payload the subscriber handled
    surfaces,       \* the iframes assembleIFrames finds: a list of [throws]
    ready,          \* frames that announced FRAME_READY
    replied,        \* frames whose FRAME_READY was replied to
    models,         \* number of CreditCardForm instances constructed
    surfaceModels,  \* per surface, the models it was initialized with, in order
    listeners,      \* per registered tokenization listener, the model it holds
    returned        \* number of orchestrate calls that returned their client promise

pipeVars == <<orchestrated, numberConfig, clientPromise, client, cardForm,
              supportedCardTypes, cardFormCalls, requests>>
fmtVars == <<fmtPc, fmtErr, fmtOut>>
brandVars == <<brandPc, brandClient, brandMerchant, brandOut>>

mergeVars == <<mergePc, mergeData, mergeOptions, mergeOut>>
autoVars == <<inputs, cachedValues, lastTick, busEvents, surface, lastDelivery>>
orchVars == <<surfaces, ready, replied, models, surfaceModels, listeners, returned>>
sideVars == <<fmtVars, brandVars, mergeVars, autoVars>>

vars == <<pipeVars, sideVars, orchVars>>

Undefined == << >>
Some(v) == <<v>>

(***************************************************************************)
(* Error objects                                                           *)
(***************************************************************************)

\* new BraintreeError(options): details stay undefined unless given.
BraintreeError(code) ==
    [code |-> code, details |-> Undefined, fieldErrors |-> Undefined]

Details(status, original, keys) ==
    [httpStatus |-> status, originalError |-> original, invalidFieldKeys |-> keys]

HOSTED_FIELDS_FIELDS_EMPTY == "HOSTED_FIELDS_FIELDS_EMPTY"
HOSTED_FIELDS_FIELDS_INVALID == "HOSTED_FIELDS_FIELDS_INVALID"
HOSTED_FIELDS_FAILED_TOKENIZATION == "HOSTED_FIELDS_FAILED_TOKENIZATION"
HOSTED_FIELDS_TOKENIZATION_NETWORK_ERROR == "HOSTED_FIELDS_TOKENIZATION_NETWORK_ERROR"

\* constants.tokenizationErrorCodes: the fixed table from a gateway field-error
\* code to the taxonomy entry it is reported as.
tokenizationErrorCodes ==
    (81724 :> "HOSTED_FIELDS_TOKENIZATION_FAIL_ON_DUPLICATE") @@
    (81736 :> "HOSTED_FIELDS_TOKENIZATION_CVV_VERIFICATION_FAILED")

\* BraintreeError.findRootError: follow details.originalError to the innermost error.
RECURSIVE findRootError(_)
findRootError(err) ==
    IF err.details # Undefined /\ err.details[1].originalError # Undefined
    THEN findRootError(err.details[1].originalError[1])
    ELSE err

\* convertToBraintreeError(rootError, entry): the taxonomy entry, the root
\* error attached as detail.
convertToBraintreeError(originalErr, entry) ==
    [BraintreeError(entry) EXCEPT
        !.details = Some(Details(Undefined, Some(originalErr), Undefined))]

\* The outcome of running a piece of code: it returned `value` or it threw.
Returned(v) == [threw |-> FALSE, value |-> Some(v)]
Thrown == [threw |-> TRUE, value |-> Undefined]

\* rootError.fieldErrors[0].fieldErrors[0].code: reading a property of
\* undefined throws a TypeError; a missing `code` property reads as undefined.
ExtractCode(rootError) ==
    IF rootError.fieldErrors = Undefined THEN Thrown
    ELSE IF Len(rootError.fieldErrors[1]) = 0 THEN Thrown
    ELSE IF rootError.fieldErrors[1][1].fieldErrors = Undefined THEN Thrown
    ELSE IF Len(rootError.fieldErrors[1][1].fieldErrors[1]) = 0 THEN Thrown
    ELSE Returned(rootError.fieldErrors[1][1].fieldErrors[1][1].code)

\* var status = err.details && err.details.httpStatus;
StatusOf(err) ==
    IF err.details = Undefined THEN Undefined ELSE err.details[1].httpStatus

\* status < 500 in JavaScript: false for undefined (NaN).
StatusBelow500(status) == status # Undefined /\ status[1] < 500

\* tokenizationErrorCodes.hasOwnProperty(code)
IsKnownCode(code) == code # Undefined /\ code[1] \in DOMAIN tokenizationErrorCodes

\* formattedError = new BraintreeError(entry); formattedError.details = {originalError: err};
WithOriginalError(code, err) ==
    [BraintreeError(code) EXCEPT
        !.details = Some(Details(Undefined, Some(err), Undefined))]

\* The branch taken once the code has been looked for.
ClientErrorBranch(err, code) ==
    IF IsKnownCode(code)
    THEN convertToBraintreeError(findRootError(err), tokenizationErrorCodes[code[1]])
    ELSE WithOriginalError(HOSTED_FIELDS_FAILED_TOKENIZATION, err)

\* Faulty variant: the 403 test placed after the `< 500` test.
formatTokenizationError_NoPassThrough(err) ==
    LET status == StatusOf(err)
        got == ExtractCode(findRootError(err))
        code == IF got.threw THEN Undefined ELSE got.value[1]
    IN  IF StatusBelow500(status) THEN Returned(ClientErrorBranch(err, code))
        ELSE IF status = Some(403) THEN Returned(err)
        ELSE Returned(WithOriginalError(HOSTED_FIELDS_TOKENIZATION_NETWORK_ERROR, err))

\* Faulty variant: a missing status treated as a client error (`!(status >= 500)`).
formatTokenizationError_MissingIsClientError(err) ==
    LET status == StatusOf(err)
        got == ExtractCode(findRootError(err))
        code == IF got.threw THEN Undefined ELSE got.value[1]
    IN  IF status = Some(403) THEN Returned(err)
        ELSE IF status = Undefined \/ status[1] < 500
        THEN Returned(ClientErrorBranch(err, code))
        ELSE Returned(WithOriginalError(HOSTED_FIELDS_TOKENIZATION_NETWORK_ERROR, err))

\* Faulty variant: the extraction not wrapped in try/catch.
formatTokenizationError_NoTryCatch(err) ==
    LET status == StatusOf(err)
        got == ExtractCode(findRootError(err))
    IN  IF status = Some(403) THEN Returned(err)
        ELSE IF StatusBelow500(status)
        THEN IF got.threw THEN Thrown
             ELSE Returned(ClientErrorBranch(err, got.value[1]))
        ELSE Returned(WithOriginalError(HOSTED_FIELDS_TOKENIZATION_NETWORK_ERROR, err))

formatTokenizationError(err) ==
    LET status == StatusOf(err)
        got == ExtractCode(findRootError(err))
        \* catch (e) { /* bail out */ }: `code` stays undefined
        code == IF got.threw THEN Undefined ELSE got.value[1]
    IN  IF status = Some(403) THEN Returned(err)
        ELSE IF StatusBelow500(status) THEN Returned(ClientErrorBranch(err, code))
        ELSE Returned(WithOriginalError(HOSTED_FIELDS_TOKENIZATION_NETWORK_ERROR, err))

(***************************************************************************)
(* The failures the classifier is given                                    *)
(***************************************************************************)

\* How deep details.originalError chains go in the failures enumerated.
MaxNesting == 1

FieldErrorCodes == {Undefined, Some(81724), Some(81736), Some(91584)}

InnerFieldErrors == {<< >>} \cup {<<[code |-> c]>> : c \in FieldErrorCodes}

FieldErrorEntries ==
    {[fieldErrors |-> fe] : fe \in {Undefined} \cup {Some(l) : l \in InnerFieldErrors}}

FieldErrorShapes ==
    {Undefined} \cup {Some(<< >>)} \cup {Some(<<e>>) : e \in FieldErrorEntries}

HttpStatuses == {Undefined, Some(400), Some(403), Some(404), Some(422), Some(499),
                 Some(500), Some(503)}

\* A raw object that is no BraintreeError (a parsed response body, a TypeError).
RawErrors ==
    {[code |-> "", details |-> Undefined, fieldErrors |-> fe] : fe \in FieldErrorShapes}

\* A BraintreeError produced by client.request: the status and, when the
\* gateway answered, the parsed response as details.originalError.
ClientRequestError(status, original) ==
    [code |-> "CLIENT_REQUEST_ERROR",
     details |-> Some(Details(status, original, Undefined)),
     fieldErrors |-> Undefined]

RECURSIVE Failures(_)
Failures(depth) ==
    IF depth = 0
    THEN RawErrors \cup {ClientRequestError(s, Undefined) : s \in HttpStatuses}
    ELSE Failures(depth - 1) \cup
         {ClientRequestError(s, Some(e)) : s \in HttpStatuses, e \in Failures(depth - 1)}

(***************************************************************************)
(* getSupportedCardBrands                                                  *)
(***************************************************************************)

\* Longest gateway list and longest merchant configuration enumerated.
MaxGatewayBrands == 2
MaxMerchantBrands == 2

RawBrandNames == {"Visa", "visa", "MasterCard", "mastercard", "American Express"}

\* normalizeCardType: lower-cases a brand name and joins its words with dashes.
normalizeCardType(type) ==
    CASE type = "Visa" -> "visa"
      [] type = "MasterCard" -> "mastercard"
      [] type = "American Express" -> "american-express"
      [] OTHER -> type

\* brands[cardBrand] = true;  /  supportedCardBrands[key] = value;
SetKey(obj, key, value) ==
    [k \in DOMAIN obj \cup {key} |-> IF k = key THEN value ELSE obj[k]]

EmptyObject == [k \in {} |-> TRUE]

\* gwSupportedCards.reduce(function (brands, cardBrand) {...}, {})
RECURSIVE ReduceGateway(_, _)
ReduceGateway(brands, cards) ==
    IF cards = << >> THEN brands
    ELSE ReduceGateway(SetKey(brands, Head(cards), TRUE), Tail(cards))

\* Object.keys(merchantConfiguredCardBrands).forEach(...), keys in insertion order
RECURSIVE ForEachMerchant(_, _)
ForEachMerchant(brands, entries) ==
    IF entries = << >> THEN brands
    ELSE ForEachMerchant(
            SetKey(brands, normalizeCardType(Head(entries)[1]), Head(entries)[2]),
            Tail(entries))

\* supportedCardTypes.map(normalizeCardType)
NormalizeAll(types) == [i \in 1..Len(types) |-> normalizeCardType(types[i])]

\* Faulty variant: the merchant configuration applied first, the gateway list over it.
getSupportedCardBrands_GatewayWins(creditCards, merchantConfiguredCardBrands) ==
    LET gwSupportedCards ==
            IF creditCards = Undefined THEN << >>
            ELSE NormalizeAll(creditCards[1].supportedCardTypes)
        merchant ==
            IF merchantConfiguredCardBrands = Undefined THEN << >>
            ELSE merchantConfiguredCardBrands[1]
    IN  ReduceGateway(ForEachMerchant(EmptyObject, merchant), gwSupportedCards)

\* `creditCards` is client.getConfiguration().gatewayConfiguration.creditCards.
getSupportedCardBrands(creditCards, merchantConfiguredCardBrands) ==
    LET gwSupportedCards ==
            IF creditCards = Undefined THEN << >>
            ELSE NormalizeAll(creditCards[1].supportedCardTypes)
        merchant ==
            IF merchantConfiguredCardBrands = Undefined THEN << >>
            ELSE merchantConfiguredCardBrands[1]
    IN  ForEachMerchant(ReduceGateway(EmptyObject, gwSupportedCards), merchant)

SeqsUpTo(S, n) == UNION {[1..k -> S] : k \in 0..n}

\* Objects have distinct keys.
MerchantConfigs ==
    {m \in SeqsUpTo(RawBrandNames \X BOOLEAN, MaxMerchantBrands) :
        \A i, j \in 1..Len(m) : i # j => m[i][1] # m[j][1]}

GatewayConfigs ==
    {Undefined} \cup
    {Some([supportedCardTypes |-> l]) : l \in SeqsUpTo(RawBrandNames, MaxGatewayBrands)}

(***************************************************************************)
(* The card-data model (CreditCardForm), as far as the pipeline reads it   *)
(***************************************************************************)

Fields == {"number", "cvv"}

\* An empty field is not valid; a field with text is valid or not.
FieldStates ==
    {[isEmpty |-> TRUE, isValid |-> FALSE],
     [isEmpty |-> FALSE, isValid |-> FALSE],
     [isEmpty |-> FALSE, isValid |-> TRUE]}

\* With no list of fields the model uses all of its fields.
FieldKeys(fieldsToTokenize) ==
    IF fieldsToTokenize = Undefined THEN Fields ELSE fieldsToTokenize[1]

isEmpty(form, fieldsToTokenize) ==
    \A k \in FieldKeys(fieldsToTokenize) : form[k].isEmpty

invalidFieldKeys(form, fieldsToTokenize) ==
    {k \in FieldKeys(fieldsToTokenize) : ~form[k].isValid}

(***************************************************************************)
(* The tokenization pipeline                                               *)
(***************************************************************************)

\* Most tokenization requests received in one run.
MaxRequests == 1

\* The options objects requests carry: none at all, or one naming the fields.
OptionsSent ==
    {Undefined} \cup
    {Some([fieldsToTokenize |-> f]) : f \in {Undefined, Some({"number"}), Some({"cvv"})}}

\* What client.request resolves with: a body with or without an instrument record.
ClientApiResults == {[creditCards |-> << >>], [creditCards |-> <<[nonce |-> "nonce"]>>]}

\* What reading a property of undefined throws.
TypeError == [code |-> "", details |-> Undefined, fieldErrors |-> Undefined]

GatewayFieldError(code) ==
    [code |-> "", details |-> Undefined,
     fieldErrors |-> Some(<<[fieldErrors |-> Some(<<[code |-> Some(code)]>>)]>>)]

\* What client.request rejects with.
ClientApiErrors ==
    {ClientRequestError(Some(403), Some(GatewayFieldError(81724))),
     ClientRequestError(Some(422), Some(GatewayFieldError(81736))),
     ClientRequestError(Some(500), Undefined)}

\* reply([error])  and  reply([null, result])
ErrorReply(err) == [error |-> Some(err), result |-> Undefined]
SuccessReply(result) == [error |-> Undefined, result |-> Some(result)]

FieldsInvalidError(keys) ==
    [BraintreeError(HOSTED_FIELDS_FIELDS_INVALID) EXCEPT
        !.details = Some(Details(Undefined, Undefined, Some(keys)))]

Replied(req, r) == [req EXCEPT !.replies = Append(@, r), !.pc = "done"]

\* Faulty variant: a request that finds the client unresolved is failed at once.
tokenizationHandler_FailFast(options, early) ==
    [options |-> options,
     pc |-> IF early THEN "done" ELSE "waiting",
     replies |-> IF early
                 THEN <<ErrorReply(BraintreeError(HOSTED_FIELDS_TOKENIZATION_NETWORK_ERROR))>>
                 ELSE << >>,
     calls |-> 0, early |-> early, failure |-> Undefined, seen |-> Undefined,
     arrivedEmpty |-> FALSE]

\* The handler itself: only Promise.resolve(clientInstanceOrPromise).then(...);
\* nothing else runs before the client is there.  `early`, `arrivedEmpty` and
\* `seen` record history: whether the client was unresolved on arrival,
\* whether the requested fields were empty on arrival, and what the model
\* said when the request was looked at.
tokenizationHandler(options, early) ==
    [options |-> options, pc |-> "waiting", replies |-> << >>, calls |-> 0,
     early |-> early, failure |-> Undefined, seen |-> Undefined,
     arrivedEmpty |-> FALSE]

\* Faulty variant: the validity test placed before the emptiness test.
WithClient_InvalidFirst(req, form) ==
    IF req.options = Undefined THEN [req EXCEPT !.pc = "rejected"]
    ELSE LET fieldsToTokenize == req.options[1].fieldsToTokenize
         IN  IF invalidFieldKeys(form, fieldsToTokenize) # {}
             THEN Replied(req, ErrorReply(FieldsInvalidError(invalidFieldKeys(form, fieldsToTokenize))))
             ELSE IF isEmpty(form, fieldsToTokenize)
             THEN Replied(req, ErrorReply(BraintreeError(HOSTED_FIELDS_FIELDS_EMPTY)))
             ELSE [req EXCEPT !.pc = "requesting", !.calls = @ + 1]

\* Faulty variant: the invalid keys of the whole model, not of the requested fields.
WithClient_AllInvalidKeys(req, form) ==
    IF req.options = Undefined THEN [req EXCEPT !.pc = "rejected"]
    ELSE LET fieldsToTokenize == req.options[1].fieldsToTokenize
         IN  IF isEmpty(form, fieldsToTokenize)
             THEN Replied(req, ErrorReply(BraintreeError(HOSTED_FIELDS_FIELDS_EMPTY)))
             ELSE IF invalidFieldKeys(form, fieldsToTokenize) # {}
             THEN Replied(req, ErrorReply(FieldsInvalidError(invalidFieldKeys(form, Undefined))))
             ELSE [req EXCEPT !.pc = "requesting", !.calls = @ + 1]

\* Faulty variant: emptiness is judged as it was when the request arrived.
WithClient_AtArrival(req, form) ==
    IF req.options = Undefined THEN [req EXCEPT !.pc = "rejected"]
    ELSE LET fieldsToTokenize == req.options[1].fieldsToTokenize
         IN  IF req.arrivedEmpty
             THEN Replied(req, ErrorReply(BraintreeError(HOSTED_FIELDS_FIELDS_EMPTY)))
             ELSE IF invalidFieldKeys(form, fieldsToTokenize) # {}
             THEN Replied(req, ErrorReply(FieldsInvalidError(invalidFieldKeys(form, fieldsToTokenize))))
             ELSE [req EXCEPT !.pc = "requesting", !.calls = @ + 1]

\* The callback given the client, up to the call of client.request.
\* `options.fieldsToTokenize` is read first: with no options object that read
\* throws, the promise of the callback rejects and nothing handles it.
WithClient(req, form) ==
    IF req.options = Undefined THEN [req EXCEPT !.pc = "rejected"]
    ELSE LET fieldsToTokenize == req.options[1].fieldsToTokenize
         IN  IF isEmpty(form, fieldsToTokenize)
             THEN Replied(req, ErrorReply(BraintreeError(HOSTED_FIELDS_FIELDS_EMPTY)))
             ELSE IF invalidFieldKeys(form, fieldsToTokenize) # {}
             THEN Replied(req, ErrorReply(FieldsInvalidError(invalidFieldKeys(form, fieldsToTokenize))))
             ELSE [req EXCEPT !.pc = "requesting", !.calls = @ + 1]

\* Faulty variant: the reply made before the instrument record is read.
OnClientApiResult_ReplyFirst(req, clientApiResult) ==
    IF Len(clientApiResult.creditCards) = 0
    THEN [req EXCEPT !.replies = Append(@, SuccessReply([nonce |-> "undefined"])),
                     !.pc = "catching", !.failure = Some(TypeError)]
    ELSE Replied(req, SuccessReply([nonce |-> clientApiResult.creditCards[1].nonce]))

\* .then(function (clientApiResult) {...}): with no instrument record
\* clientApiCreditCard is undefined and reading its nonce throws, which the
\* .catch that follows receives.
OnClientApiResult(req, clientApiResult) ==
    IF Len(clientApiResult.creditCards) = 0
    THEN [req EXCEPT !.pc = "catching", !.failure = Some(TypeError)]
    ELSE Replied(req, SuccessReply([nonce |-> clientApiResult.creditCards[1].nonce]))

\* Faulty variant: a failed call is submitted once more.
OnClientApiError_Retry(req) ==
    IF req.calls < 2
    THEN [req EXCEPT !.pc = "requesting", !.calls = @ + 1, !.failure = Undefined]
    ELSE Replied(req, ErrorReply(formatTokenizationError(req.failure[1]).value[1]))

\* .catch(function (clientApiError) {...})
OnClientApiError(req) ==
    LET formattedError == formatTokenizationError(req.failure[1])
    IN  IF formattedError.threw THEN [req EXCEPT !.pc = "rejected"]
        ELSE Replied(req, ErrorReply(formattedError.value[1]))

(***************************************************************************)
(* orchestrate and the events that follow it                               *)
(***************************************************************************)

\* configuration.fields.number: absent, or restricting the brands.
NumberConfigs ==
    {Undefined,
     Some([supportedCardBrands |-> Some(<< <<"visa", FALSE>> >>),
           rejectUnsupportedCards |-> FALSE])}

ClientConfigs == {Some([supportedCardTypes |-> <<"Visa", "MasterCard">>])}

PipeInit ==
    /\ orchestrated = FALSE
    /\ numberConfig = Undefined
    /\ clientPromise = "none"
    /\ client = Undefined
    /\ cardForm = [k \in Fields |-> [isEmpty |-> TRUE, isValid |-> FALSE]]
    /\ supportedCardTypes = Undefined
    /\ cardFormCalls = << >>
    /\ requests = << >>

\* create(): the frame opens its bus and announces FRAME_READY, with
\* orchestrate as the reply callback.
create(f) ==
    /\ f \in 1..Len(surfaces)
    /\ f \notin ready
    /\ ready' = ready \cup {f}
    /\ UNCHANGED <<surfaces, replied, models, surfaceModels, listeners, returned>>
    /\ UNCHANGED <<pipeVars, sideVars>>

\* Faulty variant: no try / catch, the first throw ends the loop and the caller.
InitializeAll_NoCatch(iframes, initialized, form) ==
    LET throwing == {i \in 1..Len(iframes) : iframes[i].throws}
        stop == IF throwing = {} THEN Len(iframes) + 1
                ELSE CHOOSE i \in throwing : \A j \in throwing : i <= j
    IN  [surfaceModels |-> [i \in 1..Len(iframes) |->
                              IF i < stop THEN Append(initialized[i], form)
                              ELSE initialized[i]],
         threw |-> stop <= Len(iframes)]

\* iframes.forEach(function (iframe) { try { ...initialize(cardForm) } catch (e) {} }):
\* each iframe whose initialize returns now holds the model; a throw is
\* swallowed and the loop goes on.
InitializeAll(iframes, initialized, form) ==
    [surfaceModels |-> [i \in 1..Len(iframes) |->
                          IF iframes[i].throws THEN initialized[i]
                          ELSE Append(initialized[i], form)],
     threw |-> FALSE]

\* orchestrate(configuration), called as the reply to frame f's FRAME_READY:
\* builds a model, asks for the client configuration, initializes the
\* iframes, registers the tokenization listener and returns the promise.
orchestrate(f, config) ==
    /\ f \in ready \ replied
    /\ replied' = replied \cup {f}
    /\ LET form == models + 1
           init == InitializeAll(surfaces, surfaceModels, form)
       IN  /\ models' = form
           /\ surfaceModels' = init.surfaceModels
           /\ listeners' = IF init.threw THEN listeners ELSE Append(listeners, form)
           /\ returned' = IF init.threw THEN returned ELSE returned + 1
           /\ orchestrated' = (orchestrated \/ ~init.threw)
    /\ numberConfig' = config
    /\ clientPromise' = "pending"
    /\ UNCHANGED <<client, cardForm, supportedCardTypes, cardFormCalls, requests>>
    /\ UNCHANGED <<surfaces, ready, sideVars>>

\* The reply to READY_FOR_CLIENT: resolve(new Client(configurationFromMerchantPage)).
ReadyForClientReply(creditCards) ==
    /\ clientPromise = "pending"
    /\ clientPromise' = "constructed"
    /\ client' = creditCards
    /\ UNCHANGED <<orchestrated, numberConfig, cardForm, supportedCardTypes,
                   cardFormCalls, requests>>
    /\ UNCHANGED <<sideVars, orchVars>>

\* Faulty variant: rejectUnsupportedCards alone does not count.
RestrictsBrands_BrandsOnly(config) ==
    /\ config # Undefined
    /\ config[1].supportedCardBrands # Undefined

\* numberConfig && (numberConfig.supportedCardBrands || numberConfig.rejectUnsupportedCards)
RestrictsBrands(config) ==
    /\ config # Undefined
    /\ (config[1].supportedCardBrands # Undefined \/ config[1].rejectUnsupportedCards)

\* .then(function (client) {...}) of the client promise: push the merged
\* brands into the model and re-validate the number, then hand the client on.
ClientConstructed ==
    /\ clientPromise = "constructed"
    /\ clientPromise' = "fulfilled"
    /\ IF RestrictsBrands(numberConfig)
       THEN /\ supportedCardTypes' =
                  Some(getSupportedCardBrands(client, numberConfig[1].supportedCardBrands))
            /\ cardFormCalls' =
                  cardFormCalls \o <<"setSupportedCardTypes", "validateField:number">>
       ELSE UNCHANGED <<supportedCardTypes, cardFormCalls>>
    /\ UNCHANGED <<orchestrated, numberConfig, client, cardForm, requests>>
    /\ UNCHANGED <<sideVars, orchVars>>

\* A field's surface reports a new value: the model's entry changes.
UpdateField(k, state) ==
    /\ orchestrated
    /\ cardForm[k] # state
    /\ cardForm' = [cardForm EXCEPT ![k] = state]
    /\ UNCHANGED <<orchestrated, numberConfig, clientPromise, client,
                   supportedCardTypes, cardFormCalls, requests>>
    /\ UNCHANGED <<sideVars, orchVars>>

\* History: what the model says of the fields a request names.
Snapshot(form, options) ==
    IF options = Undefined THEN Undefined
    ELSE Some([isEmpty |-> isEmpty(form, options[1].fieldsToTokenize),
               invalid |-> invalidFieldKeys(form, options[1].fieldsToTokenize)])

\* History: whether the fields a request names were all empty when it arrived.
EmptyOnArrival(form, options) ==
    options # Undefined /\ isEmpty(form, options[1].fieldsToTokenize)

\* Faulty variant: the handler is given the promise of the client alone,
\* before the .then that pushes the brands.
ClientAvailable_BeforeThen == clientPromise \in {"constructed", "fulfilled"}

RequestsUnchangedElse ==
    UNCHANGED <<orchestrated, numberConfig, clientPromise, client, cardForm,
                supportedCardTypes, cardFormCalls, sideVars, orchVars>>

\* TOKENIZATION_REQUEST on the bus: the listener builds a handler and calls it.
TokenizationRequest(options) ==
    /\ orchestrated
    /\ Len(requests) < MaxRequests
    /\ requests' = Append(requests,
          [tokenizationHandler(options, clientPromise # "fulfilled") EXCEPT
              !.arrivedEmpty = EmptyOnArrival(cardForm, options)])
    /\ RequestsUnchangedElse

\* Promise.resolve(clientInstanceOrPromise): the handler is given the promise
\* orchestrate keeps, the one its .then callback fulfils.
ClientAvailable == clientPromise = "fulfilled"

\* The callbacks waiting on the client promise run once it is fulfilled, in
\* the order they were registered.
ClientResolved(i) ==
    /\ i \in 1..Len(requests)
    /\ requests[i].pc = "waiting"
    /\ \A j \in 1..(i - 1) : requests[j].pc # "waiting"
    /\ ClientAvailable
    /\ requests' = [requests EXCEPT ![i] =
          [WithClient(requests[i], cardForm) EXCEPT
              !.seen = Snapshot(cardForm, requests[i].options)]]
    /\ RequestsUnchangedElse

\* client.request resolves.
ClientApiResolved(i, clientApiResult) ==
    /\ i \in 1..Len(requests)
    /\ requests[i].pc = "requesting"
    /\ requests' = [requests EXCEPT ![i] = OnClientApiResult(requests[i], clientApiResult)]
    /\ RequestsUnchangedElse

\* client.request rejects: the rejection passes the .then and reaches the .catch.
ClientApiRejected(i, clientApiError) ==
    /\ i \in 1..Len(requests)
    /\ requests[i].pc = "requesting"
    /\ requests' = [requests EXCEPT ![i] =
          [requests[i] EXCEPT !.pc = "catching", !.failure = Some(clientApiError)]]
    /\ RequestsUnchangedElse

\* The .catch callback runs.
ClientApiCaught(i) ==
    /\ i \in 1..Len(requests)
    /\ requests[i].pc = "catching"
    /\ requests' = [requests EXCEPT ![i] = OnClientApiError(requests[i])]
    /\ RequestsUnchangedElse

(***************************************************************************)
(* mergeCardData                                                           *)
(***************************************************************************)

ALLOWED_BILLING_ADDRESS_FIELDS ==
    {"company", "countryCodeNumeric", "countryCodeAlpha2", "countryCodeAlpha3",
     "countryName", "extendedAddress", "locality", "region", "firstName",
     "lastName", "postalCode", "streetAddress"}

\* assign({}, options.billingAddress): an absent address gives the empty object.
BillingAddressOf(options) ==
    IF options.billingAddress = Undefined THEN EmptyObject
    ELSE options.billingAddress[1]

\* if (cardholderName): undefined and '' are falsy.
HasCardholderName(options) ==
    /\ options.cardholderName # Undefined
    /\ options.cardholderName[1] # ""

\* Faulty variant: the billing address is filtered by the allow-list only.
mergeCardData_BillingWins(cardData, options) ==
    LET billing == BillingAddressOf(options)
        kept == {f \in DOMAIN billing : f \in ALLOWED_BILLING_ADDRESS_FIELDS}
        address == [f \in kept |-> billing[f]]
        userProvidedCardData ==
            IF HasCardholderName(options)
            THEN SetKey(address, "cardholderName", options.cardholderName[1])
            ELSE address
    IN  userProvidedCardData @@ cardData

\* mergeCardData(cardData, options): the billing address loses the fields
\* that are off the allow-list or that the card data owns, gains the
\* cardholder name, and is assigned over a copy of the card data.
mergeCardData(cardData, options) ==
    LET billing == BillingAddressOf(options)
        kept == {f \in DOMAIN billing :
                    ~(f \notin ALLOWED_BILLING_ADDRESS_FIELDS \/ f \in DOMAIN cardData)}
        address == [f \in kept |-> billing[f]]
        userProvidedCardData ==
            IF HasCardholderName(options)
            THEN SetKey(address, "cardholderName", options.cardholderName[1])
            ELSE address
    IN  userProvidedCardData @@ cardData

\* Fields the model may report, and fields a caller may put in the address.
CardDataFields == {"number", "postalCode", "cardholderName"}
BillingFields == {"postalCode", "streetAddress", "phoneNumber", "number"}

CardDatas == {[f \in D |-> "model"] : D \in SUBSET CardDataFields}

MergeOptions ==
    [billingAddress : {Undefined} \cup
                      {Some([f \in D |-> "billing"]) : D \in SUBSET BillingFields},
     cardholderName : {Undefined, Some(""), Some("Jane Doe")}]

(***************************************************************************)
(* Autofill: the synchronizer of the number surface and the subscriber of  *)
(* every surface.  A string is the sequence of its characters, so that     *)
(* length, prefix and concatenation are those of the program.              *)
(***************************************************************************)

MaxBusEvents == 1

EmptyString == << >>

AutofillMonths == {EmptyString, <<"1", "2">>}
AutofillYears == {EmptyString, <<"2", "9">>, <<"2", "0", "3", "1">>}
AutofillCvvs == {EmptyString, <<"1", "2", "3">>}

\* What the three hidden inputs can hold.
AutofillValues == [month : AutofillMonths, year : AutofillYears, cvv : AutofillCvvs]

\* String((new Date()).getFullYear())
ThisYears == {<<"2", "0", "2", "6">>, <<"2", "1", "0", "0">>}

\* cachedValues.month !== expMonthInput.value || ... || cachedValues.cvv !== cvvInput.value
AutofillDiffers(cached, current) ==
    \/ cached.month # current.month
    \/ cached.year # current.year
    \/ cached.cvv # current.cvv

\* Faulty variant: a change of the cvv input alone is not seen.
pollTick_IgnoresCvv(cached, current) ==
    IF cached.month # current.month \/ cached.year # current.year
    THEN [cachedValues |-> [month |-> current.month, year |-> current.year,
                            cvv |-> current.cvv],
          published |-> Some([month |-> current.month, year |-> current.year,
                              cvv |-> current.cvv]),
          log |-> <<"cache", "fix1PasswordAdjustment", "emit">>]
    ELSE [cachedValues |-> cached, published |-> Undefined, log |-> << >>]

\* Faulty variant: the event is published before the form is nudged.
pollTick_EmitFirst(cached, current) ==
    IF AutofillDiffers(cached, current)
    THEN [cachedValues |-> [month |-> current.month, year |-> current.year,
                            cvv |-> current.cvv],
          published |-> Some([month |-> current.month, year |-> current.year,
                              cvv |-> current.cvv]),
          log |-> <<"cache", "emit", "fix1PasswordAdjustment">>]
    ELSE [cachedValues |-> cached, published |-> Undefined, log |-> << >>]

\* The setInterval callback of createInputsForAutofill: the new cache, the
\* payload it publishes if any, and its steps in the order of the statements.
pollTick(cached, current) ==
    IF AutofillDiffers(cached, current)
    THEN [cachedValues |-> [month |-> current.month, year |-> current.year,
                            cvv |-> current.cvv],
          published |-> Some([month |-> current.month, year |-> current.year,
                              cvv |-> current.cvv]),
          log |-> <<"cache", "fix1PasswordAdjustment", "emit">>]
    ELSE [cachedValues |-> cached, published |-> Undefined, log |-> << >>]

\* The browser's autofill writes one of the hidden inputs.
AutofillInput(field, value) ==
    /\ field \in DOMAIN inputs
    /\ inputs[field] # value
    /\ inputs' = [inputs EXCEPT ![field] = value]
    /\ UNCHANGED <<cachedValues, lastTick, busEvents, surface, lastDelivery>>
    /\ UNCHANGED <<pipeVars, fmtVars, brandVars, mergeVars, orchVars>>

\* The interval fires.
Tick ==
    LET tick == pollTick(cachedValues, inputs)
    IN  /\ cachedValues # << >>
        /\ tick.published # Undefined => Len(busEvents) < MaxBusEvents
        /\ cachedValues' = tick.cachedValues
        /\ busEvents' = IF tick.published = Undefined THEN busEvents
                        ELSE Append(busEvents, tick.published[1])
        /\ lastTick' = Some([before |-> cachedValues, inputs |-> inputs,
                             published |-> tick.published, log |-> tick.log])
        /\ UNCHANGED <<inputs, surface, lastDelivery>>
        /\ UNCHANGED <<pipeVars, fmtVars, brandVars, mergeVars, orchVars>>

\* The bus hands the oldest published payload to the frames.
BusDelivered ==
    /\ busEvents # << >>
    /\ busEvents' = Tail(busEvents)
    /\ UNCHANGED <<inputs, cachedValues, lastTick, surface, lastDelivery>>
    /\ UNCHANGED <<pipeVars, fmtVars, brandVars, mergeVars, orchVars>>

\* input.maskValue(value): the element shows one mask character per character.
maskValue(value) == [i \in 1..Len(value) |-> "*"]

FrameNames == {"number", "cvv", "expirationDate", "expirationMonth",
               "expirationYear", "postalCode"}

\* year.length === 2 ? thisYear.substring(0, 2) + year : year
WidenYear(year, thisYear) ==
    IF Len(year) = 2 THEN SubSeq(thisYear, 1, 2) \o year ELSE year

\* The value the subscriber picks for its role; undefined for the others.
AutofillValueFor(name, payload, thisYear) ==
    CASE name = "expirationDate" ->
            Some(payload.month \o <<" ", "/", " ">> \o WidenYear(payload.year, thisYear))
      [] name = "expirationMonth" -> Some(payload.month)
      [] name = "expirationYear" -> Some(WidenYear(payload.year, thisYear))
      [] name = "cvv" /\ payload.cvv # EmptyString -> Some(payload.cvv)
      [] OTHER -> Undefined

\* updateModel('value', value), then the element shows the mask or the value.
WriteValue(fieldComponent, value) ==
    [fieldComponent EXCEPT
        !.model = value,
        !.display = IF fieldComponent.shouldMask THEN maskValue(value) ELSE value]

\* Faulty variant: a masking field hands the masked text to the model.
autofillHandler_MaskedModel(fieldComponent, payload, thisYear) ==
    IF payload.month = EmptyString \/ payload.year = EmptyString THEN fieldComponent
    ELSE LET value == AutofillValueFor(fieldComponent.role, payload, thisYear)
         IN  IF value = Undefined \/ value = Some(EmptyString) THEN fieldComponent
             ELSE [fieldComponent EXCEPT
                      !.model = IF fieldComponent.shouldMask THEN maskValue(value[1])
                                ELSE value[1],
                      !.display = IF fieldComponent.shouldMask THEN maskValue(value[1])
                                  ELSE value[1]]

\* Faulty variant: the cvv role takes its value before month and year are tested.
autofillHandler_CvvFirst(fieldComponent, payload, thisYear) ==
    IF fieldComponent.role = "cvv" /\ payload.cvv # EmptyString
    THEN WriteValue(fieldComponent, payload.cvv)
    ELSE IF payload.month = EmptyString \/ payload.year = EmptyString THEN fieldComponent
    ELSE LET value == AutofillValueFor(fieldComponent.role, payload, thisYear)
         IN  IF value = Undefined \/ value = Some(EmptyString) THEN fieldComponent
             ELSE WriteValue(fieldComponent, value[1])

\* The function autofillHandler(fieldComponent) returns, applied to a payload.
autofillHandler(fieldComponent, payload, thisYear) ==
    IF payload.month = EmptyString \/ payload.year = EmptyString THEN fieldComponent
    ELSE LET value == AutofillValueFor(fieldComponent.role, payload, thisYear)
         IN  IF value = Undefined \/ value = Some(EmptyString) THEN fieldComponent
             ELSE WriteValue(fieldComponent, value[1])

\* The payloads the synchronizer can publish.
PublishedPayloads ==
    {pollTick(cached, current).published[1] :
        <<cached, current>> \in {cc \in AutofillValues \X AutofillValues :
                                    pollTick(cc[1], cc[2]).published # Undefined}}

\* AUTOFILL_DATA_AVAILABLE reaches the surface's subscriber.
AutofillDataAvailable(payload, thisYear) ==
    /\ surface # << >>
    /\ surface' = autofillHandler(surface, payload, thisYear)
    /\ lastDelivery' = Some([payload |-> payload, thisYear |-> thisYear,
                             before |-> surface])
    /\ UNCHANGED <<inputs, cachedValues, lastTick, busEvents>>
    /\ UNCHANGED <<pipeVars, fmtVars, brandVars, mergeVars, orchVars>>

BrandIdle ==
    /\ brandPc = "idle"
    /\ brandClient = Undefined
    /\ brandMerchant = Undefined
    /\ brandOut = Undefined

FmtIdle ==
    /\ fmtPc = "idle"
    /\ fmtErr = BraintreeError("")
    /\ fmtOut = Thrown

MergeIdle ==
    /\ mergePc = "idle"
    /\ mergeData = EmptyObject
    /\ mergeOptions = [billingAddress |-> Undefined, cardholderName |-> Undefined]
    /\ mergeOut = EmptyObject

AutoIdle ==
    /\ inputs = << >>
    /\ cachedValues = << >>
    /\ lastTick = Undefined
    /\ busEvents = << >>
    /\ surface = << >>
    /\ lastDelivery = Undefined

\* Before any frame has run create().
FramesLoading ==
    /\ ready = {}
    /\ replied = {}
    /\ models = 0
    /\ surfaceModels = [i \in 1..Len(surfaces) |-> << >>]
    /\ listeners = << >>
    /\ returned = 0

\* A form of one field.
OrchIdle ==
    /\ surfaces = <<[throws |-> FALSE]>>
    /\ FramesLoading

Init == PipeInit /\ FmtIdle /\ BrandIdle /\ MergeIdle /\ AutoIdle /\ OrchIdle

Next ==
    \/ \E f \in 1..Len(surfaces) : create(f)
    \/ \E f \in 1..Len(surfaces), config \in NumberConfigs :
          ~orchestrated /\ orchestrate(f, config)
    \/ \E creditCards \in ClientConfigs : ReadyForClientReply(creditCards)
    \/ ClientConstructed
    \/ \E k \in Fields, state \in FieldStates : UpdateField(k, state)
    \/ \E options \in OptionsSent : TokenizationRequest(options)
    \/ \E i \in 1..MaxRequests : ClientResolved(i)
    \/ \E i \in 1..MaxRequests, r \in ClientApiResults : ClientApiResolved(i, r)
    \/ \E i \in 1..MaxRequests, e \in ClientApiErrors : ClientApiRejected(i, e)
    \/ \E i \in 1..MaxRequests : ClientApiCaught(i)

Spec == Init /\ [][Next]_vars

\* The event loop runs every callback that is ready.
FairSpec ==
    /\ Spec
    /\ WF_vars(ClientConstructed)
    /\ \A i \in 1..MaxRequests : WF_vars(ClientResolved(i)) /\ WF_vars(ClientApiCaught(i))

(***************************************************************************)
(* Properties of the pipeline                                              *)
(***************************************************************************)

Received == 1..Len(requests)

\* The promise chain of the request has come to its end: the reply was made,
\* or the chain rejected with nothing left to handle the rejection.
Settled(req) == req.pc \in {"done", "rejected"}

FieldsEmptyReply == ErrorReply(BraintreeError(HOSTED_FIELDS_FIELDS_EMPTY))

\* C1: the reply of a request is never invoked more than once, and never on
\* both the success path and the failure path.
C1_AtMostOneReply ==
    \A i \in Received :
        /\ Len(requests[i].replies) <= 1
        /\ ~\E m, n \in 1..Len(requests[i].replies) :
              /\ requests[i].replies[m].error = Undefined
              /\ requests[i].replies[n].error # Undefined

\* A remote call that succeeded with no instrument record has been replied to.
C1_Witness ==
    \E i \in Received :
        /\ requests[i].pc = "done"
        /\ requests[i].calls = 1
        /\ requests[i].failure = Some(TypeError)
        /\ Len(requests[i].replies) = 1

\* C2: every request received after orchestrate registered its listener is
\* answered: once its promise chain has come to its end, the reply has been
\* invoked exactly once.
C2_AlwaysAnswered ==
    \A i \in Received : Settled(requests[i]) => Len(requests[i].replies) = 1

\* C3: a request whose fields were all empty when the model was read gets the
\* fields-empty error as its only reply and causes no remote call, also when
\* fields fail validation.
C3_FieldsEmpty ==
    \A i \in Received :
        (requests[i].seen # Undefined /\ requests[i].seen[1].isEmpty)
            => /\ requests[i].replies = <<FieldsEmptyReply>>
               /\ requests[i].calls = 0
               /\ requests[i].pc = "done"

\* An all-empty request whose fields also fail validation has been replied to.
C3_Witness ==
    \E i \in Received :
        /\ requests[i].seen # Undefined
        /\ requests[i].seen[1].isEmpty
        /\ requests[i].seen[1].invalid # {}
        /\ requests[i].pc = "done"

\* C4: a request that was not all-empty and had a field failing validation
\* gets as its only reply the fields-invalid error whose invalidFieldKeys are
\* the requested fields that failed validation, and causes no remote call.
C4_FieldsInvalid ==
    \A i \in Received :
        (/\ requests[i].seen # Undefined
         /\ ~requests[i].seen[1].isEmpty
         /\ requests[i].seen[1].invalid # {})
            => /\ requests[i].replies =
                    <<ErrorReply(FieldsInvalidError(requests[i].seen[1].invalid))>>
               /\ requests[i].calls = 0
               /\ requests[i].pc = "done"

\* A request for the number alone, while the cvv too fails validation.
C4_Witness ==
    \E i \in Received :
        /\ requests[i].seen # Undefined
        /\ requests[i].options[1].fieldsToTokenize = Some({"number"})
        /\ requests[i].seen[1] = [isEmpty |-> FALSE, invalid |-> {"number"}]
        /\ ~cardForm["cvv"].isValid
        /\ requests[i].pc = "done"

Untouched(req) == req.pc = "waiting" /\ req.replies = << >> /\ req.calls = 0

\* C5: while the client has not resolved every request is held, with no
\* reply and no remote call made for it; once the client has resolved every
\* request received, before or after, is taken up.
C5_HeldUntilResolved ==
    /\ [](clientPromise # "fulfilled" => \A i \in Received : Untouched(requests[i]))
    /\ \A i \in 1..MaxRequests :
          (i \in Received /\ clientPromise = "fulfilled")
              ~> (i \in Received /\ requests[i].pc # "waiting")

\* A request received before the client resolved has gone to the remote
\* service and has been answered with its result.
C5_Witness ==
    \E i \in Received :
        /\ requests[i].early
        /\ requests[i].pc = "done"
        /\ requests[i].calls = 1
        /\ requests[i].replies[1].error = Undefined

\* C6: a request causes at most one call of client.request; a call that
\* failed is classified and replied to, and not made again.
C6_NoRetry ==
    \A i \in Received :
        /\ requests[i].calls <= 1
        /\ (requests[i].pc = "done" /\ requests[i].failure # Undefined)
              => /\ requests[i].calls = 1
                 /\ requests[i].replies =
                       <<ErrorReply(formatTokenizationError(requests[i].failure[1]).value[1])>>

\* A rejected remote call has been classified and replied to.
C6_Witness ==
    \E i \in Received :
        /\ requests[i].pc = "done"
        /\ requests[i].failure = Some(ClientRequestError(Some(500), Undefined))
        /\ Len(requests[i].replies) = 1

(***************************************************************************)
(* Harness of the classifier: one failure, classified, then classified     *)
(* again.                                                                  *)
(***************************************************************************)

FmtInit ==
    /\ fmtPc = "input"
    /\ fmtErr \in Failures(MaxNesting)
    /\ fmtOut = Thrown



Classify ==
    /\ fmtPc = "input"
    /\ fmtOut' = formatTokenizationError(fmtErr)
    /\ fmtPc' = "classified"
    /\ UNCHANGED <<fmtErr, brandVars, pipeVars, mergeVars, autoVars, orchVars>>

Reclassify ==
    /\ fmtPc = "classified"
    /\ ~fmtOut.threw
    /\ fmtOut' = formatTokenizationError(fmtOut.value[1])
    /\ fmtPc' = "reclassified"
    /\ UNCHANGED <<fmtErr, brandVars, pipeVars, mergeVars, autoVars, orchVars>>

InitFormat == PipeInit /\ FmtInit /\ BrandIdle /\ MergeIdle /\ AutoIdle /\ OrchIdle

NextFormat == Classify \/ Reclassify

SpecFormat == InitFormat /\ [][NextFormat]_vars

(***************************************************************************)
(* Harness of the brand merge.                                             *)
(***************************************************************************)

BrandInit ==
    /\ brandPc = "input"
    /\ brandClient \in GatewayConfigs
    /\ brandMerchant \in {Undefined} \cup {Some(m) : m \in MerchantConfigs}
    /\ brandOut = Undefined

MergeBrands ==
    /\ brandPc = "input"
    /\ brandOut' = Some(getSupportedCardBrands(brandClient, brandMerchant))
    /\ brandPc' = "merged"
    /\ UNCHANGED <<brandClient, brandMerchant, fmtVars, pipeVars, mergeVars, autoVars,
                   orchVars>>

InitBrands == PipeInit /\ FmtIdle /\ BrandInit /\ MergeIdle /\ AutoIdle /\ OrchIdle

NextBrands == MergeBrands

SpecBrands == InitBrands /\ [][NextBrands]_vars

(***************************************************************************)
(* Properties of the classifier                                            *)
(***************************************************************************)

\* C7: a failure whose details.httpStatus is 403 is returned as it is,
\* whatever nested field-error code it carries, and classifying the returned
\* object again returns it unchanged.
C7_PassThrough403 ==
    (fmtPc \in {"classified", "reclassified"} /\ StatusOf(fmtErr) = Some(403))
        => fmtOut = Returned(fmtErr)

\* A 403 failure that carries a code of the table has been classified twice.
C7_Witness ==
    /\ fmtPc = "reclassified"
    /\ StatusOf(fmtErr) = Some(403)
    /\ ~ExtractCode(findRootError(fmtErr)).threw
    /\ IsKnownCode(ExtractCode(findRootError(fmtErr)).value[1])

\* C8: a failure whose status is >= 500 or missing (no details, or details
\* without httpStatus) is classified as a network error whose
\* details.originalError is the failure itself.
C8_NetworkError ==
    (fmtPc = "classified" /\ (StatusOf(fmtErr) = Undefined \/ StatusOf(fmtErr)[1] >= 500))
        => /\ ~fmtOut.threw
           /\ fmtOut.value[1].code = HOSTED_FIELDS_TOKENIZATION_NETWORK_ERROR
           /\ fmtOut.value[1].details # Undefined
           /\ fmtOut.value[1].details[1].originalError = Some(fmtErr)

\* A failure with details but no httpStatus, carrying a code of the table,
\* has been classified.
C8_Witness ==
    /\ fmtPc = "classified"
    /\ fmtErr.details # Undefined
    /\ StatusOf(fmtErr) = Undefined
    /\ ~ExtractCode(findRootError(fmtErr)).threw
    /\ IsKnownCode(ExtractCode(findRootError(fmtErr)).value[1])

\* C9: for a status below 500 other than 403 the classifier never throws; when
\* the nested code cannot be extracted or is no key of the table the result is
\* the failed-tokenization classification with the failure itself as
\* details.originalError, and when the code is a key of the table the result is
\* the table's entry for that code.
C9_ClientError ==
    (fmtPc = "classified" /\ StatusBelow500(StatusOf(fmtErr)) /\ StatusOf(fmtErr) # Some(403))
        => LET got == ExtractCode(findRootError(fmtErr))
           IN  /\ ~fmtOut.threw
               /\ IF ~got.threw /\ IsKnownCode(got.value[1])
                  THEN fmtOut.value[1].code = tokenizationErrorCodes[got.value[1][1]]
                  ELSE /\ fmtOut.value[1].code = HOSTED_FIELDS_FAILED_TOKENIZATION
                       /\ fmtOut.value[1].details # Undefined
                       /\ fmtOut.value[1].details[1].originalError = Some(fmtErr)

\* A 404 whose root error has no fieldErrors at all (the extraction throws)
\* has been classified.
C9_Witness ==
    /\ fmtPc = "classified"
    /\ StatusOf(fmtErr) = Some(404)
    /\ findRootError(fmtErr) # fmtErr
    /\ ExtractCode(findRootError(fmtErr)).threw
    /\ ~fmtOut.threw

(***************************************************************************)
(* Properties of the brand merge                                           *)
(***************************************************************************)

GatewayBrands ==
    IF brandClient = Undefined THEN {}
    ELSE {normalizeCardType(brandClient[1].supportedCardTypes[i]) :
            i \in 1..Len(brandClient[1].supportedCardTypes)}

MerchantEntries == IF brandMerchant = Undefined THEN << >> ELSE brandMerchant[1]

MerchantNames(brand) ==
    {i \in 1..Len(MerchantEntries) : normalizeCardType(MerchantEntries[i][1]) = brand}

\* The value of the entry that names the brand (the last one, when two keys
\* are spellings of the same brand).
MerchantValue(brand) ==
    LET last == CHOOSE i \in MerchantNames(brand) : \A j \in MerchantNames(brand) : j <= i
    IN  MerchantEntries[last][2]

\* C10: the merged mapping holds exactly the gateway's brands and the
\* merchant's; a brand the merchant names carries the merchant's boolean, every
\* other gateway brand is accepted.
C10_MergedBrands ==
    brandPc = "merged" =>
        /\ DOMAIN brandOut[1] =
              GatewayBrands \cup {b \in {normalizeCardType(n) : n \in RawBrandNames} :
                                      MerchantNames(b) # {}}
        /\ \A b \in DOMAIN brandOut[1] :
              brandOut[1][b] = IF MerchantNames(b) # {} THEN MerchantValue(b) ELSE TRUE

\* Merchant {visa: true} and gateway [Visa, MasterCard]: both are accepted.
C10_Witness ==
    /\ brandPc = "merged"
    /\ brandMerchant = Some(<< <<"visa", TRUE>> >>)
    /\ brandClient = Some([supportedCardTypes |-> <<"Visa", "MasterCard">>])
    /\ brandOut[1] = [b \in {"visa", "mastercard"} |-> TRUE]

(***************************************************************************)
(* Harness of the card-data merge.                                         *)
(***************************************************************************)

MergeInit ==
    /\ mergePc = "input"
    /\ mergeData \in CardDatas
    /\ mergeOptions \in MergeOptions
    /\ mergeOut = EmptyObject

\* var creditCardDetails = mergeCardData(cardForm.getCardData(fieldsToTokenize), options)
MergeCardData ==
    /\ mergePc = "input"
    /\ mergeOut' = mergeCardData(mergeData, mergeOptions)
    /\ mergePc' = "merged"
    /\ UNCHANGED <<mergeData, mergeOptions, fmtVars, brandVars, autoVars, pipeVars,
                   orchVars>>

InitMerge == PipeInit /\ FmtIdle /\ BrandIdle /\ MergeInit /\ AutoIdle /\ OrchIdle

NextMerge == MergeCardData

SpecMerge == InitMerge /\ [][NextMerge]_vars

\* C13: a field of the merged data holds a billing-address value only if its
\* name is on the allow-list and the card data has no field of that name;
\* every field of the card data keeps a value that is not the address's; a
\* billing field off the allow-list never carries its value into the result.
C13_BillingMerge ==
    mergePc = "merged" =>
        LET billing == BillingAddressOf(mergeOptions)
        IN  /\ \A f \in DOMAIN mergeOut :
                  mergeOut[f] = "billing" =>
                      /\ f \in DOMAIN billing
                      /\ f \in ALLOWED_BILLING_ADDRESS_FIELDS
                      /\ f \notin DOMAIN mergeData
            /\ \A f \in DOMAIN mergeData :
                  f \in DOMAIN mergeOut /\ mergeOut[f] # "billing"
            /\ \A f \in DOMAIN billing :
                  f \notin ALLOWED_BILLING_ADDRESS_FIELDS =>
                      (f \notin DOMAIN mergeOut \/ mergeOut[f] # "billing")

\* The address offers postalCode, streetAddress and phoneNumber and the model
\* owns number and postalCode: only streetAddress is taken from the address.
C13_Witness ==
    /\ mergePc = "merged"
    /\ DOMAIN mergeData = {"number", "postalCode"}
    /\ mergeOptions.billingAddress # Undefined
    /\ DOMAIN mergeOptions.billingAddress[1] = {"postalCode", "streetAddress", "phoneNumber"}
    /\ mergeOptions.cardholderName = Undefined
    /\ DOMAIN mergeOut = {"number", "postalCode", "streetAddress"}
    /\ mergeOut["streetAddress"] = "billing"
    /\ mergeOut["postalCode"] = "model"

(***************************************************************************)
(* The autofill synchronizer on its own, and the subscriber on its own.    *)
(***************************************************************************)

\* createInputsForAutofill: empty inputs, the cache of three empty strings.
SynchronizerInit ==
    /\ inputs = [month |-> EmptyString, year |-> EmptyString, cvv |-> EmptyString]
    /\ cachedValues = [month |-> EmptyString, year |-> EmptyString, cvv |-> EmptyString]
    /\ lastTick = Undefined
    /\ busEvents = << >>
    /\ surface = << >>
    /\ lastDelivery = Undefined

InitAutofill ==
    PipeInit /\ FmtIdle /\ BrandIdle /\ MergeIdle /\ SynchronizerInit /\ OrchIdle

NextAutofill ==
    \/ \E value \in AutofillMonths : AutofillInput("month", value)
    \/ \E value \in AutofillYears : AutofillInput("year", value)
    \/ \E value \in AutofillCvvs : AutofillInput("cvv", value)
    \/ Tick
    \/ BusDelivered

SpecAutofill == InitAutofill /\ [][NextAutofill]_vars

\* A surface of any role, masking or not, with nothing entered yet.
SubscriberInit ==
    /\ inputs = << >>
    /\ cachedValues = << >>
    /\ lastTick = Undefined
    /\ busEvents = << >>
    /\ surface \in [role : FrameNames, shouldMask : BOOLEAN,
                    model : {EmptyString}, display : {EmptyString}]
    /\ lastDelivery = Undefined

InitSubscriber ==
    PipeInit /\ FmtIdle /\ BrandIdle /\ MergeIdle /\ SubscriberInit /\ OrchIdle

NextSubscriber ==
    \E payload \in PublishedPayloads, thisYear \in ThisYears :
        AutofillDataAvailable(payload, thisYear)

SpecSubscriber == InitSubscriber /\ [][NextSubscriber]_vars

(***************************************************************************)
(* Properties of the autofill synchronizer                                 *)
(***************************************************************************)

\* C14: a poll tick publishes AUTOFILL_DATA_AVAILABLE exactly when one of
\* month, year, cvv differs from its cached value; after the tick the cache
\* holds the values the inputs had at the tick, so inputs that did not change
\* publish nothing; a published payload carries those values of all three.
C14_PublishOnChange ==
    lastTick # Undefined =>
        LET t == lastTick[1]
        IN  /\ (t.published # Undefined) <=>
                  (\/ t.before.month # t.inputs.month
                   \/ t.before.year # t.inputs.year
                   \/ t.before.cvv # t.inputs.cvv)
            /\ cachedValues = t.inputs
            /\ t.before = t.inputs => t.published = Undefined
            /\ t.published # Undefined => t.published[1] = t.inputs

\* A tick after an earlier publication: only the cvv changed since, and the
\* payload still carries all three current values.
C14_Witness ==
    /\ lastTick # Undefined
    /\ lastTick[1].before = [month |-> <<"1", "2">>, year |-> <<"2", "9">>,
                             cvv |-> EmptyString]
    /\ lastTick[1].published =
          Some([month |-> <<"1", "2">>, year |-> <<"2", "9">>, cvv |-> <<"1", "2", "3">>])
    /\ cachedValues = lastTick[1].inputs
    /\ busEvents # << >>

\* C15 as stated: a tick that detects a change updates the cache, then
\* publishes the event, and only then nudges the form.
C15_PublishThenNudge ==
    (lastTick # Undefined /\ lastTick[1].published # Undefined)
        => lastTick[1].log = <<"cache", "emit", "fix1PasswordAdjustment">>

\* C15 (amended): a tick that detects a change updates the cache, then nudges
\* the form (fix1PasswordAdjustment), and only after that publishes the event.
C15_NudgeThenPublish ==
    (lastTick # Undefined /\ lastTick[1].published # Undefined)
        => lastTick[1].log = <<"cache", "fix1PasswordAdjustment", "emit">>

\* The first tick after the month was filled in.
C15_Witness ==
    /\ lastTick # Undefined
    /\ lastTick[1].before.month = EmptyString
    /\ lastTick[1].inputs.month = <<"1", "2">>
    /\ lastTick[1].published # Undefined
    /\ Len(lastTick[1].log) = 3

(***************************************************************************)
(* Properties of the autofill subscriber                                   *)
(***************************************************************************)

\* C16: for a payload with non-empty month and year, and year widened by
\* the first two digits of the current year when it has two digits, the
\* surface's model holds month ' / ' year for expirationDate, month for
\* expirationMonth, the widened year for expirationYear, the cvv for cvv when
\* the payload's cvv is non-empty (else it is unchanged); the model holds
\* that text itself whether or not the field masks, and a number or
\* postalCode surface is unchanged.
C16_ValueForRole ==
    (/\ lastDelivery # Undefined
     /\ lastDelivery[1].payload.month # EmptyString
     /\ lastDelivery[1].payload.year # EmptyString)
    =>  LET d == lastDelivery[1]
            month == d.payload.month
            year == IF Len(d.payload.year) = 2
                    THEN <<d.thisYear[1], d.thisYear[2]>> \o d.payload.year
                    ELSE d.payload.year
        IN  /\ surface.role = "expirationDate" =>
                  surface.model = month \o <<" ", "/", " ">> \o year
            /\ surface.role = "expirationMonth" => surface.model = month
            /\ surface.role = "expirationYear" => surface.model = year
            /\ (surface.role = "cvv" /\ d.payload.cvv # EmptyString) =>
                  surface.model = d.payload.cvv
            /\ (surface.role = "cvv" /\ d.payload.cvv = EmptyString) =>
                  surface = d.before
            /\ surface.role \in {"number", "postalCode"} => surface = d.before
            /\ Len(year) = 4

\* A masking expirationDate surface receives 12 and 29 in 2026: the model
\* holds "12 / 2029" and the element shows something else.
C16_Witness ==
    /\ lastDelivery # Undefined
    /\ lastDelivery[1].payload.month = <<"1", "2">>
    /\ lastDelivery[1].payload.year = <<"2", "9">>
    /\ lastDelivery[1].thisYear = <<"2", "0", "2", "6">>
    /\ surface.role = "expirationDate"
    /\ surface.shouldMask
    /\ surface.model = <<"1", "2", " ", "/", " ", "2", "0", "2", "9">>
    /\ surface.display # surface.model

\* C20: a payload whose month or year is empty leaves the surface's model
\* and displayed value as they were, whatever the surface's role, the cvv
\* role included, and whatever cvv the payload carries.
C20_IncompleteIgnored ==
    (/\ lastDelivery # Undefined
     /\ (\/ lastDelivery[1].payload.month = EmptyString
         \/ lastDelivery[1].payload.year = EmptyString))
    => surface = lastDelivery[1].before

\* The payload the synchronizer publishes when only the cvv input was filled
\* reaches a cvv surface, which stays empty.
C20_Witness ==
    /\ lastDelivery # Undefined
    /\ Some(lastDelivery[1].payload) =
          pollTick([month |-> EmptyString, year |-> EmptyString, cvv |-> EmptyString],
                   [month |-> EmptyString, year |-> EmptyString,
                    cvv |-> <<"1", "2", "3">>]).published
    /\ lastDelivery[1].payload.cvv = <<"1", "2", "3">>
    /\ surface.role = "cvv"
    /\ surface.model = EmptyString
    /\ surface.display = EmptyString

(***************************************************************************)
(* The handshake on its own: any frames, each announcing and each possibly *)
(* receiving a reply.                                                      *)
(***************************************************************************)

MaxSurfaces == 2

\* The iframes of a form; initialize may throw in any of them.
SurfaceLists ==
    {l \in SeqsUpTo([throws : BOOLEAN], MaxSurfaces) : l # << >>}

\* configuration.fields.number in all its shapes.
AllNumberConfigs ==
    NumberConfigs \cup
    {Some([supportedCardBrands |-> Undefined, rejectUnsupportedCards |-> TRUE]),
     Some([supportedCardBrands |-> Undefined, rejectUnsupportedCards |-> FALSE])}

InitOrchestrate ==
    /\ PipeInit /\ FmtIdle /\ BrandIdle /\ MergeIdle /\ AutoIdle
    /\ surfaces \in SurfaceLists
    /\ FramesLoading

NextOrchestrate ==
    \/ \E f \in 1..MaxSurfaces : create(f)
    \/ \E f \in 1..MaxSurfaces, config \in AllNumberConfigs : orchestrate(f, config)

SpecOrchestrate == InitOrchestrate /\ [][NextOrchestrate]_vars

\* The models a surface or a listener holds.
ReferencedModels ==
    {listeners[k] : k \in 1..Len(listeners)} \cup
    UNION {{surfaceModels[s][k] : k \in 1..Len(surfaceModels[s])} :
              s \in 1..Len(surfaces)}

\* C11: when the initialize of some surface throws, each call of orchestrate
\* has still initialized every other surface with its model, registered its
\* tokenization listener and returned its client promise.
C11_IsolateAndContinue ==
    (\E s \in 1..Len(surfaces) : surfaces[s].throws) =>
        /\ \A form \in 1..models :
              /\ \A s \in 1..Len(surfaces) :
                    ~surfaces[s].throws =>
                        \E k \in 1..Len(surfaceModels[s]) : surfaceModels[s][k] = form
              /\ \E k \in 1..Len(listeners) : listeners[k] = form
        /\ returned = models
        /\ models = Cardinality(replied)

\* The first iframe throws, the second is initialized all the same.
C11_Witness ==
    /\ surfaces = <<[throws |-> TRUE], [throws |-> FALSE]>>
    /\ models = 1
    /\ surfaceModels = << << >>, <<1>> >>
    /\ listeners = <<1>>
    /\ returned = 1

\* C12: whatever frames announced and were replied to, the surfaces
\* initialized and the tokenization listeners registered all hold one and the
\* same model, and no second model was built.
C12_SingleModel ==
    /\ Cardinality(ReferencedModels) <= 1
    /\ models <= 1

(***************************************************************************)
(* The client promise on its own: every shape of the number configuration  *)
(* and of the gateway configuration.                                       *)
(***************************************************************************)

NextClient ==
    \/ \E f \in 1..Len(surfaces) : create(f)
    \/ \E f \in 1..Len(surfaces), config \in AllNumberConfigs :
          ~orchestrated /\ orchestrate(f, config)
    \/ \E creditCards \in GatewayConfigs : ReadyForClientReply(creditCards)
    \/ ClientConstructed
    \/ \E k \in Fields, state \in FieldStates : UpdateField(k, state)

SpecClient == Init /\ [][NextClient]_vars

\* C17: nothing is called on the model before the client resolves; once it
\* has, and the number configuration names brands or sets
\* rejectUnsupportedCards, the calls made are setSupportedCardTypes with the
\* merged brands, once, and then validateField('number'); with neither
\* option no call is made.
C17_BrandsThenValidate ==
    /\ clientPromise # "fulfilled" =>
          (cardFormCalls = << >> /\ supportedCardTypes = Undefined)
    /\ clientPromise = "fulfilled" =>
          IF /\ numberConfig # Undefined
             /\ (\/ numberConfig[1].supportedCardBrands # Undefined
                 \/ numberConfig[1].rejectUnsupportedCards)
          THEN /\ cardFormCalls = <<"setSupportedCardTypes", "validateField:number">>
               /\ supportedCardTypes =
                     Some(getSupportedCardBrands(client, numberConfig[1].supportedCardBrands))
          ELSE /\ cardFormCalls = << >>
               /\ supportedCardTypes = Undefined

\* rejectUnsupportedCards alone: the gateway's brands are pushed, then the
\* number is validated.
C17_Witness ==
    /\ clientPromise = "fulfilled"
    /\ numberConfig =
          Some([supportedCardBrands |-> Undefined, rejectUnsupportedCards |-> TRUE])
    /\ client = Some([supportedCardTypes |-> <<"Visa">>])
    /\ supportedCardTypes = Some([b \in {"visa"} |-> TRUE])
    /\ cardFormCalls = <<"setSupportedCardTypes", "validateField:number">>

\* C18: with a brand restriction configured, a request that has been looked
\* at (validated, replied to or sent on) was looked at after
\* setSupportedCardTypes and validateField('number') had run, whether it
\* arrived before or after the client was constructed.
C18_BrandsBeforeRequests ==
    (/\ numberConfig # Undefined
     /\ (\/ numberConfig[1].supportedCardBrands # Undefined
         \/ numberConfig[1].rejectUnsupportedCards))
    => \A i \in Received :
          ~Untouched(requests[i]) =>
              /\ cardFormCalls = <<"setSupportedCardTypes", "validateField:number">>
              /\ supportedCardTypes # Undefined

\* A request that arrived before the client resolved, under a brand
\* restriction, has been sent on after the brands were pushed.
C18_Witness ==
    /\ numberConfig # Undefined
    /\ numberConfig[1].supportedCardBrands # Undefined
    /\ cardFormCalls = <<"setSupportedCardTypes", "validateField:number">>
    /\ \E i \in Received :
          /\ requests[i].early
          /\ requests[i].calls = 1

\* C19: the outcome of a request is the one the model gives for the
\* requested fields at the moment the client resolves for it, whatever the
\* model said when the request arrived: the empty-fields reply, the
\* invalid-fields reply naming the keys invalid at that moment, or the
\* remote call.
C19_ReadAtResolution ==
    \A i \in Received :
        requests[i].seen # Undefined
        => IF requests[i].seen[1].isEmpty
           THEN requests[i].calls = 0 /\ requests[i].replies = <<FieldsEmptyReply>>
           ELSE IF requests[i].seen[1].invalid # {}
           THEN /\ requests[i].calls = 0
                /\ requests[i].replies =
                      <<ErrorReply(FieldsInvalidError(requests[i].seen[1].invalid))>>
           ELSE requests[i].calls = 1

\* The fields were empty when the request arrived and valid when the
\* client resolved: the request went to the remote service.
C19_Witness ==
    \E i \in Received :
        /\ requests[i].arrivedEmpty
        /\ requests[i].early
        /\ requests[i].seen # Undefined
        /\ ~requests[i].seen[1].isEmpty
        /\ requests[i].seen[1].invalid = {}
        /\ requests[i].calls = 1

====
